---- MODULE Spec2Model ----
(***************************************************************************)
(* A model of BIKE_SHARING_DEMAND.py: the feature builder, the temporal    *)
(* validation split, the base regressors and their blend, the submission   *)
(* and the RMSLE evaluator.                                                *)
(*                                                                         *)
(* Number representations                                                  *)
(*   - a count, a day, an hour, a flag: an integer;                        *)
(*   - a rational: a pair <<n, d>> with d > 0;                             *)
(*   - a value on the log scale (a log1p target, a log prediction): the    *)
(*     pair <<a, b>>, a > 0, b > 0, standing for ln(a / b), so that        *)
(*     np.log(c + 1) is <<c + 1, 1>> and np.exp(<<a, b>>) - 1 is the       *)
(*     rational <<a - b, b>>;                                              *)
(*   - inside get_rmsle, np.log in thousandths (fixed point).              *)
(***************************************************************************)
EXTENDS Integers, Sequences, FiniteSets, TLC

VARIABLES
    \* get_rmsle(y_pred, y_actual): arguments, position, returned value
    y_pred, y_actual, rmsle_pc, rmsle,
    \* custom_train_valid_split(data, cutoff_day): arguments, position, results
    data, cutoff_day, split_pc, train, valid,
    \* the script's data frames and its position in the feature-building part
    train_df, test_df, all_df, by_season, feat_pc, special_i,
    \* the modelling part: position, the fitted state of the two estimator objects,
    \* the model each fit returns (drawn with the input), the loop index
    run_pc, est, learner, clf_index,
    \* the names model_r and model_c, and the prediction vectors of the blend loop
    model_r, model_c, y_pred_train_r, y_pred_test_r, y_pred_train_c, y_pred_test_c,
    \* the Blend Matrices, the Blender's weights, the final prediction, the file
    blend_train, blend_test, bclf, y_pred_blend, submission,
    \* the call frame of predict_on_validation_set and the two scores it returns
    frame, rf_rmsle, gbm_rmsle,
    \* the blended validation
    blend_valid, y_pred_valid_r, y_pred_valid_c, y_pred_blend_valid, blend_rmsle

rmsleVars == <<y_pred, y_actual, rmsle_pc, rmsle>>
splitVars == <<data, cutoff_day, split_pc, train, valid>>
featVars == <<train_df, test_df, all_df, by_season, feat_pc, special_i>>
runVars == <<run_pc, est, learner, clf_index,
             model_r, model_c, y_pred_train_r, y_pred_test_r, y_pred_train_c, y_pred_test_c,
             blend_train, blend_test, bclf, y_pred_blend, submission,
             frame, rf_rmsle, gbm_rmsle,
             blend_valid, y_pred_valid_r, y_pred_valid_c, y_pred_blend_valid, blend_rmsle>>
blendVars == <<y_pred_train_r, y_pred_test_r, y_pred_train_c, y_pred_test_c,
               blend_train, blend_test, bclf, y_pred_blend, submission>>
validVars == <<frame, rf_rmsle, gbm_rmsle>>
bvVars == <<blend_valid, y_pred_valid_r, y_pred_valid_c, y_pred_blend_valid, blend_rmsle>>
vars == <<rmsleVars, splitVars, featVars, runVars>>

(***************************************************************************)
(* Bounds of the model.                                                    *)
(***************************************************************************)
MaxVecLen == 2
MaxCount == 3
MaxRows == 3

(***************************************************************************)
(* Arithmetic helpers.                                                     *)
(***************************************************************************)
\* A float is a record: a finite number (here in fixed point), NaN or +-inf.
Num(n) == [kind |-> "num", val |-> n]
NaN == [kind |-> "nan", val |-> 0]
NegInf == [kind |-> "inf", val |-> -1]
PosInf == [kind |-> "inf", val |-> 1]

RECURSIVE SumRange(_, _, _)
SumRange(s, lo, hi) ==
    IF lo > hi THEN 0
    ELSE IF lo = hi THEN s[lo]
    ELSE LET mid == (lo + hi) \div 2
         IN  SumRange(s, lo, mid) + SumRange(s, mid + 1, hi)

\* the sum of a sequence of integers
SumSeq(s) == SumRange(s, 1, Len(s))

RECURSIVE ISqrtBetween(_, _, _)
ISqrtBetween(n, lo, hi) ==
    IF lo >= hi THEN lo
    ELSE LET mid == (lo + hi + 1) \div 2
         IN  IF mid * mid <= n THEN ISqrtBetween(n, mid, hi)
             ELSE ISqrtBetween(n, lo, mid - 1)

\* floor of the square root of n, 0 <= n < 2^31
ISqrt(n) == ISqrtBetween(n, 0, IF n < 46340 THEN n ELSE 46340)

(***************************************************************************)
(* get_rmsle (Evaluator).  np.log in thousandths: LogTable[n] is           *)
(* round(1000 * ln n); ln 0 is -inf and the log of a negative number is    *)
(* NaN, as numpy returns them.                                             *)
(***************************************************************************)
LogTable == <<0, 693, 1099, 1386, 1609, 1792, 1946, 2079, 2197, 2303,
              2398, 2485, 2565, 2639, 2708, 2773, 2833, 2890, 2944, 2996,
              3045, 3091, 3135, 3178, 3219, 3258, 3296, 3332, 3367, 3401,
              3434, 3466, 3497, 3526, 3555, 3584, 3611, 3638, 3664, 3689>>

\* np.log of an integer n, in thousandths
np_log(n) ==
    IF n < 0 THEN NaN
    ELSE IF n = 0 THEN NegInf
    ELSE Num(LogTable[n])

\* a - b on floats
np_sub(a, b) ==
    IF a = NaN \/ b = NaN THEN NaN
    ELSE IF a.kind = "inf" /\ b.kind = "inf"
         THEN (IF a = b THEN NaN ELSE a)
    ELSE IF a.kind = "inf" THEN a
    ELSE IF b.kind = "inf" THEN (IF b = PosInf THEN NegInf ELSE PosInf)
    ELSE Num(a.val - b.val)

np_square(x) ==
    IF x = NaN THEN NaN
    ELSE IF x.kind = "inf" THEN PosInf
    ELSE Num(x.val * x.val)

\* the mean of a vector of floats; the mean of an empty vector is NaN
np_mean(s) ==
    IF Len(s) = 0 THEN NaN
    ELSE IF \E i \in 1..Len(s) : s[i] = NaN THEN NaN
    ELSE IF \E i \in 1..Len(s) : s[i] = PosInf /\ \E j \in 1..Len(s) : s[j] = NegInf THEN NaN
    ELSE IF \E i \in 1..Len(s) : s[i].kind = "inf"
         THEN (CHOOSE x \in {s[i] : i \in 1..Len(s)} : x.kind = "inf")
    ELSE Num(SumSeq([i \in 1..Len(s) |-> s[i].val]) \div Len(s))

\* the square root of a float in millionths, in thousandths
np_sqrt(x) ==
    IF x = NaN THEN NaN
    ELSE IF x = PosInf THEN PosInf
    ELSE IF x = NegInf \/ x.val < 0 THEN NaN
    ELSE Num(ISqrt(x.val))

rmsle_diff_drop_plus_one(p, a) == np_sub(np_log(p + 1), np_log(a))

\* line 388, one component: np.log(y_pred + 1) - np.log(y_actual + 1)
rmsle_diff(p, a) == np_sub(np_log(p + 1), np_log(a + 1))

get_rmsle(yp, ya) ==
    LET diff == [i \in 1..Len(yp) |-> rmsle_diff(yp[i], ya[i])]
        mean_error == np_mean([i \in 1..Len(diff) |-> np_square(diff[i])])
    IN  np_sqrt(mean_error)

CountVectors(n) == [1..n -> 0..MaxCount]

InitRmsle ==
    /\ \E n \in 0..MaxVecLen :
          /\ y_pred \in CountVectors(n)
          /\ y_actual \in CountVectors(n)
    /\ rmsle_pc = "call"
    /\ rmsle = NaN

IdleRmsle ==
    /\ y_pred = <<>>
    /\ y_actual = <<>>
    /\ rmsle_pc = "idle"
    /\ rmsle = NaN

Call_get_rmsle ==
    /\ rmsle_pc = "call"
    /\ rmsle' = get_rmsle(y_pred, y_actual)
    /\ rmsle_pc' = "returned"
    /\ UNCHANGED <<y_pred, y_actual, splitVars, featVars, runVars>>

(***************************************************************************)
(* custom_train_valid_split (Dataset Splitter, temporal validation split). *)
(* A record of the argument carries its row label and its day of month.    *)
(***************************************************************************)
DefaultCutoffDay == 15

SelectTrain_strict(d, c) == SelectSeq(d, LAMBDA r : r.day < c)

\* line 404: data[data['day'] <= cutoff_day]
SelectTrain(d, c) == SelectSeq(d, LAMBDA r : r.day <= c)

\* line 405: data[data['day'] > cutoff_day]
SelectValid(d, c) == SelectSeq(d, LAMBDA r : r.day > c)

custom_train_valid_split(d, c) == <<SelectTrain(d, c), SelectValid(d, c)>>

SplitDays == (DefaultCutoffDay - 2)..(DefaultCutoffDay + 2)
CutoffDays == (DefaultCutoffDay - 1)..(DefaultCutoffDay + 1)

SplitInputs ==
    UNION {{[i \in 1..n |-> [row |-> i, day |-> ds[i]]] : ds \in [1..n -> SplitDays]}
           : n \in 0..MaxRows}

InitSplit ==
    /\ data \in SplitInputs
    /\ cutoff_day \in CutoffDays
    /\ split_pc = "call"
    /\ train = <<>>
    /\ valid = <<>>

IdleSplit ==
    /\ data = <<>>
    /\ cutoff_day = DefaultCutoffDay
    /\ split_pc = "idle"
    /\ train = <<>>
    /\ valid = <<>>

Call_custom_train_valid_split ==
    /\ split_pc = "call"
    /\ LET res == custom_train_valid_split(data, cutoff_day)
       IN  /\ train' = res[1]
           /\ valid' = res[2]
    /\ split_pc' = "returned"
    /\ UNCHANGED <<data, cutoff_day, rmsleVars, featVars, runVars>>


(***************************************************************************)
(* The input files.  A timestamp is <<year, month, day, hour>>; a data     *)
(* frame is the sequence of its rows, a row a record of its columns.  The  *)
(* files hold hourly rows of a few calendar dates, in time order and with  *)
(* no missing cell (line 102 counts them): the six dates the script names  *)
(* with all their hours (or with one hour missing), and a few others with  *)
(* a few hours.                                                            *)
(***************************************************************************)
DateList ==
    << <<2011, 1, 5>>, <<2011, 1, 20>>, <<2011, 3, 16>>, <<2011, 4, 15>>,
       <<2011, 11, 10>>, <<2011, 11, 25>>, <<2012, 4, 16>>, <<2012, 5, 21>>,
       <<2012, 6, 1>>, <<2012, 11, 23>> >>

NamedDates ==
    { <<2011, 4, 15>>, <<2012, 4, 16>>, <<2011, 11, 25>>, <<2012, 11, 23>>,
      <<2012, 5, 21>>, <<2012, 6, 1>> }

DateOf(ts) == <<ts[1], ts[2], ts[3]>>

\* the hours of a date that the files hold, when no hour is missing
HoursHeld(date) ==
    IF date \in NamedDates THEN 0..23
    ELSE IF date = <<2011, 1, 5>> THEN {8, 17}
    ELSE IF date = <<2011, 3, 16>> THEN {8, 18}
    ELSE IF date = <<2011, 1, 20>> THEN {9}
    ELSE {12}

\* every timestamp the files may hold, in time order
TimeSlots ==
    [k \in 1..(Len(DateList) * 24) |->
        LET date == DateList[((k - 1) \div 24) + 1]
        IN  <<date[1], date[2], date[3], (k - 1) % 24>>]

\* the rider counts of a train row: <<casual, registered>>
RidersAt(ts) ==
    IF DateOf(ts) = <<2011, 1, 5>>
    THEN (IF ts[4] = 8 THEN <<3, 10>> ELSE <<1, 2>>)
    ELSE <<ts[4] % 3, (ts[4] % 4) + (ts[3] % 2)>>

\* a row of test_bike.csv: the nine columns both files share
TestRow(ts, p) ==
    [datetime |-> ts,
     season |-> ((ts[2] - 1) \div 3) + 1,
     holiday |-> p.holiday,
     workingday |-> p.workingday,
     weather |-> 1 + (ts[4] % 4),
     temp |-> ts[4] + p.temp_off,
     atemp |-> ts[4] + p.temp_off + 3,
     humidity |-> 10 * (ts[4] % 10),
     windspeed |-> (2 * ts[4]) % 35]

\* a row of train_bike.csv: the same and casual, registered, count
TrainRow(ts, p) ==
    [datetime |-> ts,
     season |-> ((ts[2] - 1) \div 3) + 1,
     holiday |-> p.holiday,
     workingday |-> p.workingday,
     weather |-> 1 + (ts[4] % 4),
     temp |-> ts[4] + p.temp_off,
     atemp |-> ts[4] + p.temp_off + 3,
     humidity |-> 10 * (ts[4] % 10),
     windspeed |-> (2 * ts[4]) % 35,
     casual |-> RidersAt(ts)[1],
     registered |-> RidersAt(ts)[2],
     count |-> RidersAt(ts)[1] + RidersAt(ts)[2]]

\* p.train_dates: the dates train_bike.csv holds (test_bike.csv holds the others);
\* p.missing: the timestamps neither file holds
Held(ts, p) == ts[4] \in HoursHeld(DateOf(ts)) /\ ts \notin p.missing

read_csv_train(p) ==
    LET held == SelectSeq(TimeSlots, LAMBDA ts : Held(ts, p) /\ DateOf(ts) \in p.train_dates)
    IN  [i \in 1..Len(held) |-> TrainRow(held[i], p)]

read_csv_test(p) ==
    LET held == SelectSeq(TimeSlots, LAMBDA ts : Held(ts, p) /\ DateOf(ts) \notin p.train_dates)
    IN  [i \in 1..Len(held) |-> TestRow(held[i], p)]

\* train holds the days 1-19 of a month and test the rest, as the competition's files
CompetitionDates == {DateList[i] : i \in {j \in 1..Len(DateList) : DateList[j][3] <= 19}}

TrainDateChoices ==
    { CompetitionDates,
      CompetitionDates \ {<<2011, 11, 10>>},
      {<<2011, 1, 5>>, <<2011, 3, 16>>, <<2011, 11, 10>>},
      {<<2011, 1, 5>>, <<2011, 11, 10>>} }

MissingChoices == {{}} \cup {{<<d[1], d[2], d[3], 23>>} : d \in NamedDates}

InputChoices ==
    [train_dates : TrainDateChoices, missing : MissingChoices,
     holiday : 0..1, workingday : 0..1, temp_off : {0, 5}]

(***************************************************************************)
(* Feature Builder, lines 35-148: origin tags, concatenation, the index,   *)
(* the log1p targets, the datetime features, count_season.                 *)
(***************************************************************************)
TimeLeq(a, b) ==
    \/ a[1] < b[1]
    \/ a[1] = b[1] /\ a[2] < b[2]
    \/ a[1] = b[1] /\ a[2] = b[2] /\ a[3] < b[3]
    \/ a[1] = b[1] /\ a[2] = b[2] /\ a[3] = b[3] /\ a[4] <= b[4]

\* line 42: pd.concat([train_df, test_df]): the rows of the first, then of the second
concat(a, b) == a \o b

\* lines 35-40
tag_train(r) == [data_set |-> "train"] @@ r
tag_test(r) == [data_set |-> "test", registered |-> 0, casual |-> 0, count |-> 0] @@ r

\* lines 113-115: the timestamp becomes the row label; the rows stay where they are
set_index(df) == [i \in 1..Len(df) |-> [index |-> df[i].datetime] @@ df[i]]

\* np.log(c + 1) of a count c, as a value on the log scale
log1p(c) == <<c + 1, 1>>

\* lines 118-119
log_columns(df) ==
    [i \in 1..Len(df) |->
        [casual_log |-> log1p(df[i].casual),
         registered_log |-> log1p(df[i].registered),
         count_log |-> log1p(df[i].count)] @@ df[i]]

\* DatetimeIndex.dayofweek: Monday is 0, Sunday is 6
dayofweek(ts) ==
    LET t == <<0, 3, 2, 5, 0, 3, 5, 1, 4, 6, 2, 4>>
        y == IF ts[2] < 3 THEN ts[1] - 1 ELSE ts[1]
        sunday0 == (y + (y \div 4) - (y \div 100) + (y \div 400) + t[ts[2]] + ts[3]) % 7
    IN  (sunday0 + 6) % 7

\* lines 122-126
datetime_columns(df) ==
    [i \in 1..Len(df) |->
        [hour |-> df[i].index[4], day |-> df[i].index[3], month |-> df[i].index[2],
         year |-> df[i].index[1], dow |-> dayofweek(df[i].index)] @@ df[i]]

TrainRows(df) == SelectSeq(df, LAMBDA r : r.data_set = "train")
TestRows(df) == SelectSeq(df, LAMBDA r : r.data_set = "test")

\* the sum of a column
SumColumn(df, col) == SumSeq([i \in 1..Len(df) |-> df[i][col]])

group_sum(df, col) ==
    [s \in {df[i].season : i \in 1..Len(df)} |->
        SumColumn(SelectSeq(df, LAMBDA r : r.season = s), col)]

by_season_registered(df) == group_sum(TrainRows(df), "registered")

\* lines 146-147: the train rows' count, summed per season; a season no train
\* row has is no row of by_season
by_season_of(df) == group_sum(TrainRows(df), "count")

\* line 148: all_df.join(by_season, on='season'), a left join: a row whose
\* season is no row of by_season gets NaN
join_on_season(df, bs) ==
    [i \in 1..Len(df) |->
        [count_season |-> IF df[i].season \in DOMAIN bs
                          THEN Num(bs[df[i].season]) ELSE NaN] @@ df[i]]

InitFeature ==
    /\ \E p \in InputChoices :
          /\ train_df = read_csv_train(p)
          /\ test_df = read_csv_test(p)
    /\ all_df = <<>>
    /\ by_season = <<>>
    /\ feat_pc = "tag"
    /\ special_i = 1

MaxLearner == 15

\* an estimator object before its first fit, and a file not written
Unfitted == [target |-> "none", cols |-> "none", rows |-> {}, model |-> <<>>]
NoFile == <<>>

\* no call of predict_on_validation_set is active; a score not yet computed
NoFrame == [model |-> "none"]
NotScored == [kind |-> "unset", val |-> 0]

\* the state of the modelling part before its first statement
RunNotStarted ==
    /\ run_pc = "tune"
    /\ est = [rf |-> Unfitted, gbm |-> Unfitted]
    /\ clf_index = 0
    /\ model_r = "none"
    /\ model_c = "none"
    /\ y_pred_train_r = <<>>
    /\ y_pred_test_r = <<>>
    /\ y_pred_train_c = <<>>
    /\ y_pred_test_c = <<>>
    /\ blend_train = <<>>
    /\ blend_test = <<>>
    /\ bclf = Unfitted
    /\ y_pred_blend = <<>>
    /\ submission = NoFile
    /\ frame = NoFrame
    /\ rf_rmsle = NotScored
    /\ gbm_rmsle = NotScored
    /\ blend_valid = <<>>
    /\ y_pred_valid_r = <<>>
    /\ y_pred_valid_c = <<>>
    /\ y_pred_blend_valid = <<>>
    /\ blend_rmsle = NotScored

IdleRun ==
    /\ RunNotStarted
    /\ learner = 0

\* the inputs of the whole script: the competition's layout; one whose test file
\* has a season the train file lacks; one whose train days are all in the first
\* half of the month, one whose train days are all in the second; one with three
\* train rows; one with a named date short of an hour
RunTrainDateChoices ==
    { CompetitionDates,
      CompetitionDates \ {<<2011, 11, 10>>},
      {<<2011, 1, 5>>, <<2011, 4, 15>>, <<2011, 11, 10>>, <<2012, 6, 1>>},
      {<<2011, 3, 16>>, <<2012, 4, 16>>, <<2011, 11, 25>>},
      {<<2011, 1, 5>>, <<2011, 11, 10>>} }

RunInputChoices ==
    [train_dates : RunTrainDateChoices, missing : {{}},
     holiday : {0}, workingday : 0..1, temp_off : {5}]
    \cup [train_dates : {CompetitionDates}, missing : {{<<2012, 6, 1, 23>>}},
          holiday : {0}, workingday : {1}, temp_off : {5}]

InitRun ==
    /\ \E p \in RunInputChoices :
          /\ train_df = read_csv_train(p)
          /\ test_df = read_csv_test(p)
    /\ all_df = <<>>
    /\ by_season = <<>>
    /\ feat_pc = "tag"
    /\ special_i = 1
    /\ RunNotStarted
    /\ learner \in 0..MaxLearner

IdleFeature ==
    /\ train_df = <<>>
    /\ test_df = <<>>
    /\ all_df = <<>>
    /\ by_season = <<>>
    /\ feat_pc = "idle"
    /\ special_i = 1

\* lines 35-42
TagAndConcat ==
    /\ feat_pc = "tag"
    /\ train_df' = [i \in 1..Len(train_df) |-> tag_train(train_df[i])]
    /\ test_df' = [i \in 1..Len(test_df) |-> tag_test(test_df[i])]
    /\ all_df' = concat(train_df', test_df')
    /\ feat_pc' = "index"
    /\ UNCHANGED <<by_season, special_i, rmsleVars, splitVars, runVars>>

\* lines 113-115
SetIndex ==
    /\ feat_pc = "index"
    /\ all_df' = set_index(all_df)
    /\ feat_pc' = "log"
    /\ UNCHANGED <<train_df, test_df, by_season, special_i, rmsleVars, splitVars, runVars>>

\* lines 117-126
LogAndDatetimeColumns ==
    /\ feat_pc = "log"
    /\ all_df' = datetime_columns(log_columns(all_df))
    /\ feat_pc' = "interpolate"
    /\ UNCHANGED <<train_df, test_df, by_season, special_i, rmsleVars, splitVars, runVars>>

\* lines 129-133: interpolate fills missing cells and leaves the others; the
\* files have no missing cell, and np.round leaves the whole-number weather and
\* humidity as they are
Interpolate ==
    /\ feat_pc = "interpolate"
    /\ feat_pc' = "season"
    /\ UNCHANGED <<train_df, test_df, all_df, by_season, special_i, rmsleVars, splitVars, runVars>>

\* lines 146-148
CountSeason ==
    /\ feat_pc = "season"
    /\ by_season' = by_season_of(all_df)
    /\ all_df' = join_on_season(all_df, by_season')
    /\ feat_pc' = "eda"
    /\ UNCHANGED <<train_df, test_df, special_i, rmsleVars, splitVars, runVars>>

\* line 177: train_df = all_df[all_df['data_set'] == 'train'].copy()
EdaTrainCopy ==
    /\ feat_pc = "eda"
    /\ train_df' = TrainRows(all_df)
    /\ feat_pc' = "special"
    /\ UNCHANGED <<test_df, all_df, by_season, special_i, rmsleVars, splitVars, runVars>>

(***************************************************************************)
(* Feature Builder, lines 322-345: the special days.                       *)
(***************************************************************************)
LastHourOffset == 23

\* get_day(day_start): the hourly timestamps from day_start, midnight of a date,
\* to day_start + 23 hours
get_day(date) == {<<date[1], date[2], date[3], h>> : h \in 0..LastHourOffset}

\* lines 336-345, in the order of the script
SpecialDays ==
    << [date |-> <<2011, 4, 15>>, col |-> "workingday", val |-> 1],
       [date |-> <<2012, 4, 16>>, col |-> "workingday", val |-> 1],
       [date |-> <<2011, 11, 25>>, col |-> "workingday", val |-> 0],
       [date |-> <<2012, 11, 23>>, col |-> "workingday", val |-> 0],
       [date |-> <<2011, 4, 15>>, col |-> "holiday", val |-> 0],
       [date |-> <<2012, 4, 16>>, col |-> "holiday", val |-> 0],
       [date |-> <<2011, 11, 25>>, col |-> "holiday", val |-> 1],
       [date |-> <<2012, 11, 23>>, col |-> "holiday", val |-> 1],
       [date |-> <<2012, 5, 21>>, col |-> "holiday", val |-> 1],
       [date |-> <<2012, 6, 1>>, col |-> "holiday", val |-> 1] >>

\* the labels of a list that no row carries: df.loc[labels, col] = val raises
\* KeyError when there is one
loc_missing(df, labels) == {l \in labels : \A i \in 1..Len(df) : df[i].index # l}

loc_set_whole_month(df, labels, col, val) ==
    [i \in 1..Len(df) |->
        IF \E l \in labels : l[1] = df[i].index[1] /\ l[2] = df[i].index[2]
        THEN [df[i] EXCEPT ![col] = val] ELSE df[i]]

\* df.loc[labels, col] = val: the rows whose label is in the list get val in col
loc_set(df, labels, col, val) ==
    [i \in 1..Len(df) |-> IF df[i].index \in labels THEN [df[i] EXCEPT ![col] = val] ELSE df[i]]

\* one of the statements of lines 336-345
SpecialDayAssign ==
    /\ feat_pc = "special"
    /\ LET e == SpecialDays[special_i]
       IN  /\ loc_missing(all_df, get_day(e.date)) = {}
           /\ all_df' = loc_set(all_df, get_day(e.date), e.col, e.val)
    /\ IF special_i = Len(SpecialDays)
       THEN feat_pc' = "custom" /\ special_i' = special_i
       ELSE feat_pc' = feat_pc /\ special_i' = special_i + 1
    /\ UNCHANGED <<train_df, test_df, by_season, rmsleVars, splitVars, runVars>>

\* the same statement when an hour of the date is no row: the run ends there
SpecialDayKeyError ==
    /\ feat_pc = "special"
    /\ loc_missing(all_df, get_day(SpecialDays[special_i].date)) # {}
    /\ feat_pc' = "KeyError"
    /\ UNCHANGED <<train_df, test_df, all_df, by_season, special_i, rmsleVars, splitVars, runVars>>

(***************************************************************************)
(* Feature Builder, lines 352-373: the custom features and the split back  *)
(* into train_df and test_df.                                              *)
(***************************************************************************)
RollingWindow == 3

temp_category_le(x) == IF x <= 10 THEN "low" ELSE (IF 10 <= x /\ x < 20 THEN "medium" ELSE "high")

\* line 353
temp_category(x) == IF x < 10 THEN "low" ELSE (IF 10 <= x /\ x < 20 THEN "medium" ELSE "high")

\* line 354
humidity_category(x) == IF x < 30 THEN "low" ELSE (IF 30 <= x /\ x < 70 THEN "medium" ELSE "high")

\* line 355
windspeed_category(x) == IF x < 10 THEN "low" ELSE (IF 10 <= x /\ x < 20 THEN "medium" ELSE "high")

\* line 356
hour_category(x) ==
    IF 0 <= x /\ x < 6 THEN "night"
    ELSE (IF 6 <= x /\ x < 12 THEN "morning"
          ELSE (IF 12 <= x /\ x < 18 THEN "afternoon" ELSE "evening"))

rolling_mean_temp_min_periods(df, i) ==
    IF i >= RollingWindow
    THEN <<SumColumn(SubSeq(df, i - RollingWindow + 1, i), "temp"), RollingWindow>>
    ELSE <<SumColumn(SubSeq(df, 1, i), "temp"), i>>

\* line 359, row i: the mean of the last three temperatures as the rational
\* <<sum, 3>>; where fewer than three rows are in the window, the mean of the
\* whole column, <<sum, number of rows>>
rolling_mean_temp(df, i) ==
    IF i >= RollingWindow
    THEN <<SumColumn(SubSeq(df, i - RollingWindow + 1, i), "temp"), RollingWindow>>
    ELSE <<SumColumn(df, "temp"), Len(df)>>

busy_hour_tests_hour(r) ==
    IF \/ (r.workingday = 1 /\ (r.hour = 8 \/ (17 <= r.hour /\ r.hour <= 18)))
       \/ (r.workingday = 0 /\ 10 <= r.hour /\ r.hour <= 19)
    THEN 1 ELSE 0

\* lines 360-362
busy_hour(r) ==
    IF \/ (r.workingday = 1 /\ (r.hour = 8 \/ (17 <= r.hour /\ r.hour <= 18)))
       \/ (r.workingday = 0 /\ 10 <= r.workingday /\ r.workingday <= 19)
    THEN 1 ELSE 0

\* lines 363-364
ideal(r) == IF r.temp > 27 /\ r.windspeed < 30 THEN 1 ELSE 0

\* lines 365-366
sticky(r) == IF r.workingday = 1 /\ r.humidity >= 60 THEN 1 ELSE 0

custom_columns(df) ==
    [i \in 1..Len(df) |->
        LET r == df[i]
        IN  [is_weekend |-> IF r.dow >= 5 THEN 1 ELSE 0,
             temp_category |-> temp_category(r.temp),
             humidity_category |-> humidity_category(r.humidity),
             windspeed_category |-> windspeed_category(r.windspeed),
             hour_category |-> hour_category(r.hour),
             temp_humidity_interaction |-> r.temp * r.humidity,
             holiday_weekday_interaction |-> r.holiday * r.workingday,
             rolling_mean_temp |-> rolling_mean_temp(df, i),
             busy_hour |-> busy_hour(r),
             ideal |-> ideal(r),
             sticky |-> sticky(r)] @@ r]

\* lines 352-366
CustomFeatures ==
    /\ feat_pc = "custom"
    /\ all_df' = custom_columns(all_df)
    /\ feat_pc' = "split"
    /\ UNCHANGED <<train_df, test_df, by_season, special_i, rmsleVars, splitVars, runVars>>

\* lines 372-373
SplitBack ==
    /\ feat_pc = "split"
    /\ train_df' = TrainRows(all_df)
    /\ test_df' = TestRows(all_df)
    /\ feat_pc' = "engineered"
    /\ UNCHANGED <<all_df, by_season, special_i, rmsleVars, splitVars, runVars>>

(***************************************************************************)
(* Numbers of the modelling part: rationals <<n, d>>, d > 0, and values    *)
(* on the log scale <<a, b>> for ln(a / b).                                *)
(***************************************************************************)
\* np.exp(x) - 1 of a value on the log scale, a rational
expm1(x) == <<x[1] - x[2], x[2]>>

rat_add(p, q) == <<p[1] * q[2] + q[1] * p[2], p[2] * q[2]>>

round_half_up(q) == (2 * q[1] + q[2]) \div (2 * q[2])

\* np.round of a rational: to the nearest integer, a tie to the even one
np_round(q) ==
    LET f == q[1] \div q[2]
        r == q[1] % q[2]
    IN  IF 2 * r < q[2] THEN f
        ELSE IF 2 * r > q[2] THEN f + 1
        ELSE IF f % 2 = 0 THEN f ELSE f + 1

keep_negative(v) == v

\* v[v < 0] = 0
clip_negative(v) == [i \in 1..Len(v) |-> IF v[i] < 0 THEN 0 ELSE v[i]]

\* np.round(y_r + y_c) followed by the clipping (lines 579-580, 582-583,
\* 447-448, 639-640)
combine(y_r, y_c) == clip_negative([i \in 1..Len(y_r) |-> np_round(rat_add(y_r[i], y_c[i]))])

(***************************************************************************)
(* The estimators.  An estimator object is fitted in place: its state is   *)
(* what its last fit was given and the model that fit returned.  A model   *)
(* is a stump on one column of the estimator's feature set: a prediction   *)
(* for the rows with 0 in that column and one for the rows with 1.  With   *)
(* random_state=42 (lines 475-476) a fit is a function of the estimator,   *)
(* the target and the training rows; which function is drawn with the      *)
(* input, as learner.                                                      *)
(***************************************************************************)
rf_cols == {"weather", "temp", "atemp", "windspeed", "workingday", "season", "holiday",
            "sticky", "hour", "dow", "busy_hour"}
gbm_cols == {"weather", "temp", "atemp", "humidity", "windspeed", "holiday", "workingday",
             "season", "hour", "dow", "year", "ideal", "count_season"}

\* lines 558-559: the feature sets and the estimators, in the order of the loops
clf_input_cols == <<rf_cols, gbm_cols>>
clfs == <<"rf", "gbm">>

StumpColumn(clf) == IF clf = "rf" THEN "workingday" ELSE "holiday"

Stumps ==
    << << <<5, 1>>, <<7, 1>> >>,
       << <<1, 2>>, <<1, 1>> >>,
       << <<7, 1>>, <<1, 2>> >>,
       << <<1, 1>>, <<5, 1>> >> >>

\* the model that fitting clf on target over n rows returns
Learn(seed, clf, target, n) ==
    LET base == IF target = "casual_log" THEN (seed \div Len(Stumps)) ELSE seed
        shift == IF clf = "gbm" THEN 1 ELSE 0
    IN  Stumps[((base + shift + n) % Len(Stumps)) + 1]

Labels(df) == {df[i].index : i \in 1..Len(df)}

\* a row has a missing value in one of the columns: count_season is the one
\* column of the frames that can hold NaN
RowHasNaN(r, cols) == "count_season" \in cols /\ r.count_season = NaN

\* the estimator rejects X: no row, or a missing value (ValueError)
Rejects(X, cols) == Len(X) = 0 \/ \E i \in 1..Len(X) : RowHasNaN(X[i], cols)

fit_casual_target(seed, clf, cols, X, target) ==
    [target |-> "casual_log", cols |-> cols, rows |-> Labels(X),
     model |-> Learn(seed, clf, "casual_log", Len(X))]

\* clf.fit(X, y): the state of the estimator object after the fit
fit(seed, clf, cols, X, target) ==
    [target |-> target, cols |-> cols, rows |-> Labels(X),
     model |-> Learn(seed, clf, target, Len(X))]

\* model.predict(X), on the log scale
predict(state, clf, X) == [i \in 1..Len(X) |-> state.model[X[i][StumpColumn(clf)] + 1]]

\* np.exp(model.predict(X)) - 1
predict_counts(state, clf, X) ==
    [i \in 1..Len(X) |-> expm1(predict(state, clf, X)[i])]

(***************************************************************************)
(* Tuning, lines 510-529.  train_test_split keeps a fifth of the rows      *)
(* aside (test_size=0.2, rounded up) and the search cross-validates on the *)
(* rest in 3 folds, then refits the best estimator on those rows.          *)
(***************************************************************************)
CvFolds == 3
TestSizeInverse == 5

n_tune_test(n) == (n + TestSizeInverse - 1) \div TestSizeInverse
n_tune_train(n) == n - n_tune_test(n)

\* X_train_rf, X_train_gbm: the rows the shuffle of train_test_split keeps
tune_rows(seed, df) ==
    SelectSeq([i \in 1..Len(df) |-> [pos |-> i, row |-> df[i]]],
              LAMBDA e : ((e.pos + seed) % Len(df)) < n_tune_train(Len(df)))

TuneWorks == n_tune_train(Len(train_df)) >= CvFolds

TuneModels ==
    /\ feat_pc = "engineered"
    /\ run_pc = "tune"
    /\ TuneWorks
    /\ LET kept == tune_rows(learner, train_df)
           X == [i \in 1..Len(kept) |-> kept[i].row]
       IN  est' = [rf |-> fit(learner, "rf", rf_cols, X, "count_log"),
                   gbm |-> fit(learner, "gbm", gbm_cols, X, "count_log")]
    /\ clf_index' = 0
    /\ run_pc' = "blend_fit_r"
    /\ UNCHANGED <<learner, model_r, model_c, y_pred_train_r, y_pred_test_r,
                   y_pred_train_c, y_pred_test_c, blend_train, blend_test, bclf,
                   y_pred_blend, submission, rmsleVars, splitVars, featVars, validVars, bvVars>>

\* too few rows for the split and the 3 folds: the search raises ValueError
TuneRaises ==
    /\ feat_pc = "engineered"
    /\ run_pc = "tune"
    /\ ~TuneWorks
    /\ run_pc' = "ValueError"
    /\ UNCHANGED <<est, learner, clf_index, model_r, model_c, y_pred_train_r, y_pred_test_r,
                   y_pred_train_c, y_pred_test_c, blend_train, blend_test, bclf,
                   y_pred_blend, submission, rmsleVars, splitVars, featVars, validVars, bvVars>>

(***************************************************************************)
(* The blend loop, lines 558-587: one pass per estimator.                  *)
(***************************************************************************)
\* np.zeros((n, len(clfs)))
np_zeros(n) == [i \in 1..n |-> <<0, 0>>]

\* m[:, k] = v, k counted from 0
set_column(m, k, v) == [i \in 1..Len(m) |-> [m[i] EXCEPT ![k + 1] = v[i]]]

\* lines 561-562, run when the loop is entered
BlendZeros(m, n) == IF clf_index = 0 THEN np_zeros(n) ELSE m

\* lines 566-570: model_r = clf.fit(X_train, y_train_r); fit returns the estimator
\* itself, so model_r names the object clf
BlendFitRegistered ==
    /\ run_pc = "blend_fit_r"
    /\ est' = [est EXCEPT ![clfs[clf_index + 1]] =
                   fit(learner, clfs[clf_index + 1], clf_input_cols[clf_index + 1],
                       train_df, "registered_log")]
    /\ model_r' = clfs[clf_index + 1]
    /\ blend_train' = BlendZeros(blend_train, Len(train_df))
    /\ blend_test' = BlendZeros(blend_test, Len(test_df))
    /\ run_pc' = "blend_predict_r"
    /\ UNCHANGED <<learner, clf_index, model_c, y_pred_train_r, y_pred_test_r,
                   y_pred_train_c, y_pred_test_c, bclf, y_pred_blend, submission,
                   rmsleVars, splitVars, featVars, validVars, bvVars>>

\* lines 571-572
BlendPredictRegistered ==
    /\ run_pc = "blend_predict_r"
    /\ ~Rejects(test_df, est[model_r].cols)
    /\ y_pred_train_r' = predict_counts(est[model_r], model_r, train_df)
    /\ y_pred_test_r' = predict_counts(est[model_r], model_r, test_df)
    /\ run_pc' = "blend_fit_c"
    /\ UNCHANGED <<est, learner, clf_index, model_r, model_c, y_pred_train_c, y_pred_test_c,
                   blend_train, blend_test, bclf, y_pred_blend, submission,
                   rmsleVars, splitVars, featVars, validVars, bvVars>>

\* line 572 on a test frame the estimator rejects: ValueError
BlendPredictRaises ==
    /\ run_pc = "blend_predict_r"
    /\ Rejects(test_df, est[model_r].cols)
    /\ y_pred_train_r' = predict_counts(est[model_r], model_r, train_df)
    /\ run_pc' = "ValueError"
    /\ UNCHANGED <<est, learner, clf_index, model_r, model_c, y_pred_test_r, y_pred_train_c,
                   y_pred_test_c, blend_train, blend_test, bclf, y_pred_blend, submission,
                   rmsleVars, splitVars, featVars, validVars, bvVars>>

\* line 574: the same object is fitted again, on the casual target
BlendFitCasual ==
    /\ run_pc = "blend_fit_c"
    /\ est' = [est EXCEPT ![clfs[clf_index + 1]] =
                   fit(learner, clfs[clf_index + 1], clf_input_cols[clf_index + 1],
                       train_df, "casual_log")]
    /\ model_c' = clfs[clf_index + 1]
    /\ run_pc' = "blend_predict_c"
    /\ UNCHANGED <<learner, clf_index, model_r, y_pred_train_r, y_pred_test_r,
                   y_pred_train_c, y_pred_test_c, blend_train, blend_test, bclf,
                   y_pred_blend, submission, rmsleVars, splitVars, featVars, validVars, bvVars>>

\* lines 575-576
BlendPredictCasual ==
    /\ run_pc = "blend_predict_c"
    /\ y_pred_train_c' = predict_counts(est[model_c], model_c, train_df)
    /\ y_pred_test_c' = predict_counts(est[model_c], model_c, test_df)
    /\ run_pc' = "blend_store"
    /\ UNCHANGED <<est, learner, clf_index, model_r, model_c, y_pred_train_r, y_pred_test_r,
                   blend_train, blend_test, bclf, y_pred_blend, submission,
                   rmsleVars, splitVars, featVars, validVars, bvVars>>

\* lines 579-587, and the step of the loop
BlendStore ==
    /\ run_pc = "blend_store"
    /\ blend_train' = set_column(blend_train, clf_index, combine(y_pred_train_r, y_pred_train_c))
    /\ blend_test' = set_column(blend_test, clf_index, combine(y_pred_test_r, y_pred_test_c))
    /\ IF clf_index + 1 < Len(clfs)
          THEN clf_index' = clf_index + 1 /\ run_pc' = "blend_fit_r"
          ELSE clf_index' = clf_index /\ run_pc' = "fit_blender"
    /\ UNCHANGED <<est, learner, model_r, model_c, y_pred_train_r, y_pred_test_r,
                   y_pred_train_c, y_pred_test_c, bclf, y_pred_blend, submission,
                   rmsleVars, splitVars, featVars, validVars, bvVars>>

(***************************************************************************)
(* The Blender, lines 589-594: least squares without intercept on the two  *)
(* columns of the Blend Matrix, by the normal equations; when the matrix   *)
(* has rank below 2 the solver returns the solution of least norm.         *)
(***************************************************************************)
ColumnDot(m, j, k) == SumSeq([i \in 1..Len(m) |-> m[i][j] * m[i][k]])
TargetDot(m, j, y) == SumSeq([i \in 1..Len(m) |-> m[i][j] * y[i]])

\* LinearRegression(fit_intercept=False).fit(m, y): coef_ as num / den
linear_fit(m, y) ==
    LET s11 == ColumnDot(m, 1, 1)
        s12 == ColumnDot(m, 1, 2)
        s22 == ColumnDot(m, 2, 2)
        t1 == TargetDot(m, 1, y)
        t2 == TargetDot(m, 2, y)
        det == s11 * s22 - s12 * s12
    IN  IF det # 0 THEN [num |-> <<s22 * t1 - s12 * t2, s11 * t2 - s12 * t1>>, den |-> det]
        ELSE IF s11 + s22 # 0 THEN [num |-> <<t1, t2>>, den |-> s11 + s22]
        ELSE [num |-> <<0, 0>>, den |-> 1]

\* bclf.predict(m)
linear_predict(coef, m) ==
    [i \in 1..Len(m) |-> <<coef.num[1] * m[i][1] + coef.num[2] * m[i][2], coef.den>>]

\* np.round(bclf.predict(m)).astype(int)
blend_predict(coef, m) == [i \in 1..Len(m) |-> np_round(linear_predict(coef, m)[i])]

\* lines 590-591
FitBlender ==
    /\ run_pc = "fit_blender"
    /\ bclf' = [rows |-> Labels(train_df)]
                @@ linear_fit(blend_train, [i \in 1..Len(train_df) |-> train_df[i].count])
    /\ run_pc' = "final_predict"
    /\ UNCHANGED <<est, learner, clf_index, model_r, model_c, y_pred_train_r, y_pred_test_r,
                   y_pred_train_c, y_pred_test_c, blend_train, blend_test,
                   y_pred_blend, submission, rmsleVars, splitVars, featVars, validVars, bvVars>>

\* lines 594-600: the final prediction and submission.csv
FinalPredictAndSubmit ==
    /\ run_pc = "final_predict"
    /\ y_pred_blend' = blend_predict(bclf, blend_test)
    /\ submission' = [i \in 1..Len(test_df) |->
                         [datetime |-> test_df[i].datetime, count |-> y_pred_blend'[i]]]
    /\ run_pc' = "validate"
    /\ UNCHANGED <<est, learner, clf_index, model_r, model_c, y_pred_train_r, y_pred_test_r,
                   y_pred_train_c, y_pred_test_c, blend_train, blend_test, bclf,
                   rmsleVars, splitVars, featVars, validVars, bvVars>>

(***************************************************************************)
(* predict_on_validation_set, lines 426-453, called at lines 603 and 607.  *)
(* frame holds the parameters and the local names of the active call.      *)
(***************************************************************************)
\* np.exp of a log1p target <<c + 1, 1>>
exp_target(x) == x[1] \div x[2]

\* np.exp(y_r) + np.exp(y_c) - 2 on the rows of df (lines 450, 645)
y_actual_comb(df) ==
    [i \in 1..Len(df) |-> exp_target(df[i].registered_log) + exp_target(df[i].casual_log) - 2]

\* lines 603, 607 and 437-439: the call and the split
CallPredictOnValidationSet ==
    /\ run_pc = "validate"
    /\ LET k == IF rf_rmsle = NotScored THEN 1 ELSE 2
           parts == custom_train_valid_split(train_df, DefaultCutoffDay)
       IN  frame' = [model |-> clfs[k], input_cols |-> clf_input_cols[k],
                     train |-> parts[1], valid |-> parts[2],
                     model_r |-> "none", model_c |-> "none",
                     y_pred_r |-> <<>>, y_pred_c |-> <<>>, y_pred_comb |-> <<>>]
    /\ run_pc' = "valid_fit_r"
    /\ UNCHANGED <<est, learner, clf_index, model_r, model_c, blendVars, rf_rmsle, gbm_rmsle,
                   rmsleVars, splitVars, featVars, bvVars>>

\* line 441
ValidFitRegistered ==
    /\ run_pc = "valid_fit_r"
    /\ Len(frame.train) > 0
    /\ est' = [est EXCEPT ![frame.model] =
                   fit(learner, frame.model, frame.input_cols, frame.train, "registered_log")]
    /\ frame' = [frame EXCEPT !.model_r = frame.model]
    /\ run_pc' = "valid_predict_r"
    /\ UNCHANGED <<learner, clf_index, model_r, model_c, blendVars, rf_rmsle, gbm_rmsle,
                   rmsleVars, splitVars, featVars, bvVars>>

\* line 441 with no train row: the fit raises ValueError
ValidFitRaises ==
    /\ run_pc = "valid_fit_r"
    /\ Len(frame.train) = 0
    /\ run_pc' = "ValueError"
    /\ UNCHANGED <<est, learner, clf_index, model_r, model_c, blendVars, validVars,
                   rmsleVars, splitVars, featVars, bvVars>>

\* line 442
ValidPredictRegistered ==
    /\ run_pc = "valid_predict_r"
    /\ ~Rejects(frame.valid, frame.input_cols)
    /\ frame' = [frame EXCEPT
                    !.y_pred_r = predict_counts(est[frame.model_r], frame.model_r, frame.valid)]
    /\ run_pc' = "valid_fit_c"
    /\ UNCHANGED <<est, learner, clf_index, model_r, model_c, blendVars, rf_rmsle, gbm_rmsle,
                   rmsleVars, splitVars, featVars, bvVars>>

\* line 442 with no validation row: the prediction raises ValueError
ValidPredictRaises ==
    /\ run_pc = "valid_predict_r"
    /\ Rejects(frame.valid, frame.input_cols)
    /\ run_pc' = "ValueError"
    /\ UNCHANGED <<est, learner, clf_index, model_r, model_c, blendVars, validVars,
                   rmsleVars, splitVars, featVars, bvVars>>

\* line 444
ValidFitCasual ==
    /\ run_pc = "valid_fit_c"
    /\ est' = [est EXCEPT ![frame.model] =
                   fit(learner, frame.model, frame.input_cols, frame.train, "casual_log")]
    /\ frame' = [frame EXCEPT !.model_c = frame.model]
    /\ run_pc' = "valid_predict_c"
    /\ UNCHANGED <<learner, clf_index, model_r, model_c, blendVars, rf_rmsle, gbm_rmsle,
                   rmsleVars, splitVars, featVars, bvVars>>

\* line 445
ValidPredictCasual ==
    /\ run_pc = "valid_predict_c"
    /\ frame' = [frame EXCEPT
                    !.y_pred_c = predict_counts(est[frame.model_c], frame.model_c, frame.valid)]
    /\ run_pc' = "valid_combine"
    /\ UNCHANGED <<est, learner, clf_index, model_r, model_c, blendVars, rf_rmsle, gbm_rmsle,
                   rmsleVars, splitVars, featVars, bvVars>>

\* lines 447-448
ValidCombine ==
    /\ run_pc = "valid_combine"
    /\ frame' = [frame EXCEPT !.y_pred_comb = combine(frame.y_pred_r, frame.y_pred_c)]
    /\ run_pc' = "valid_score"
    /\ UNCHANGED <<est, learner, clf_index, model_r, model_c, blendVars, rf_rmsle, gbm_rmsle,
                   rmsleVars, splitVars, featVars, bvVars>>

\* lines 450-453: the score, returned into rf_rmsle (line 603) or gbm_rmsle (607)
ValidScore ==
    /\ run_pc = "valid_score"
    /\ LET score == get_rmsle(frame.y_pred_comb, y_actual_comb(frame.valid))
       IN  IF frame.model = "rf"
           THEN rf_rmsle' = score /\ gbm_rmsle' = gbm_rmsle /\ run_pc' = "validate"
           ELSE gbm_rmsle' = score /\ rf_rmsle' = rf_rmsle /\ run_pc' = "bv_split"
    /\ frame' = NoFrame
    /\ UNCHANGED <<est, learner, clf_index, model_r, model_c, blendVars,
                   rmsleVars, splitVars, featVars, bvVars>>

(***************************************************************************)
(* The blended validation, lines 625-648.                                  *)
(***************************************************************************)
\* lines 626-627
BlendValidSplit ==
    /\ run_pc = "bv_split"
    /\ train' = custom_train_valid_split(train_df, DefaultCutoffDay)[1]
    /\ valid' = custom_train_valid_split(train_df, DefaultCutoffDay)[2]
    /\ blend_valid' = np_zeros(Len(valid'))
    /\ clf_index' = 0
    /\ run_pc' = "bv_fit_r"
    /\ UNCHANGED <<est, learner, model_r, model_c, blendVars, validVars,
                   y_pred_valid_r, y_pred_valid_c, y_pred_blend_valid, blend_rmsle,
                   rmsleVars, data, cutoff_day, split_pc, featVars>>

\* lines 630-633: the estimator is fitted on the whole of train_df
BlendValidFitRegistered ==
    /\ run_pc = "bv_fit_r"
    /\ est' = [est EXCEPT ![clfs[clf_index + 1]] =
                   fit(learner, clfs[clf_index + 1], clf_input_cols[clf_index + 1],
                       train_df, "registered_log")]
    /\ model_r' = clfs[clf_index + 1]
    /\ run_pc' = "bv_predict_r"
    /\ UNCHANGED <<learner, clf_index, model_c, blendVars, validVars, bvVars,
                   rmsleVars, splitVars, featVars>>

\* line 634; a validation subset the estimator rejects has ended the run at line 603
BlendValidPredictRegistered ==
    /\ run_pc = "bv_predict_r"
    /\ ~Rejects(valid, est[model_r].cols)
    /\ y_pred_valid_r' = predict_counts(est[model_r], model_r, valid)
    /\ run_pc' = "bv_fit_c"
    /\ UNCHANGED <<est, learner, clf_index, model_r, model_c, blendVars, validVars,
                   blend_valid, y_pred_valid_c, y_pred_blend_valid, blend_rmsle,
                   rmsleVars, splitVars, featVars>>

\* line 636
BlendValidFitCasual ==
    /\ run_pc = "bv_fit_c"
    /\ est' = [est EXCEPT ![clfs[clf_index + 1]] =
                   fit(learner, clfs[clf_index + 1], clf_input_cols[clf_index + 1],
                       train_df, "casual_log")]
    /\ model_c' = clfs[clf_index + 1]
    /\ run_pc' = "bv_predict_c"
    /\ UNCHANGED <<learner, clf_index, model_r, blendVars, validVars, bvVars,
                   rmsleVars, splitVars, featVars>>

\* line 637
BlendValidPredictCasual ==
    /\ run_pc = "bv_predict_c"
    /\ y_pred_valid_c' = predict_counts(est[model_c], model_c, valid)
    /\ run_pc' = "bv_store"
    /\ UNCHANGED <<est, learner, clf_index, model_r, model_c, blendVars, validVars,
                   blend_valid, y_pred_valid_r, y_pred_blend_valid, blend_rmsle,
                   rmsleVars, splitVars, featVars>>

\* lines 639-642, and the step of the loop
BlendValidStore ==
    /\ run_pc = "bv_store"
    /\ blend_valid' = set_column(blend_valid, clf_index, combine(y_pred_valid_r, y_pred_valid_c))
    /\ IF clf_index + 1 < Len(clfs)
          THEN clf_index' = clf_index + 1 /\ run_pc' = "bv_fit_r"
          ELSE clf_index' = clf_index /\ run_pc' = "bv_score"
    /\ UNCHANGED <<est, learner, model_r, model_c, blendVars, validVars,
                   y_pred_valid_r, y_pred_valid_c, y_pred_blend_valid, blend_rmsle,
                   rmsleVars, splitVars, featVars>>

\* lines 644-648
BlendValidScore ==
    /\ run_pc = "bv_score"
    /\ y_pred_blend_valid' = blend_predict(bclf, blend_valid)
    /\ blend_rmsle' = get_rmsle(y_pred_blend_valid', y_actual_comb(valid))
    /\ run_pc' = "done"
    /\ UNCHANGED <<est, learner, clf_index, model_r, model_c, blendVars, validVars,
                   blend_valid, y_pred_valid_r, y_pred_valid_c,
                   rmsleVars, splitVars, featVars>>

(***************************************************************************)
(* Specifications.                                                         *)
(***************************************************************************)
\* get_rmsle on every pair of equal-length count vectors within the bounds
InitSpecRmsle ==
    /\ InitRmsle
    /\ IdleSplit
    /\ IdleFeature
    /\ IdleRun
NextRmsle == Call_get_rmsle
SpecRmsle == InitSpecRmsle /\ [][NextRmsle]_vars

\* custom_train_valid_split on every record sequence and cutoff within the bounds
InitSpecSplit ==
    /\ IdleRmsle
    /\ InitSplit
    /\ IdleFeature
    /\ IdleRun
NextSplit == Call_custom_train_valid_split
SpecSplit == InitSpecSplit /\ [][NextSplit]_vars

\* the feature builder on every choice of input files
InitSpecFeature ==
    /\ IdleRmsle
    /\ IdleSplit
    /\ InitFeature
    /\ IdleRun
NextFeature ==
    \/ TagAndConcat
    \/ SetIndex
    \/ LogAndDatetimeColumns
    \/ Interpolate
    \/ CountSeason
    \/ EdaTrainCopy
    \/ SpecialDayAssign
    \/ SpecialDayKeyError
    \/ CustomFeatures
    \/ SplitBack
SpecFeature == InitSpecFeature /\ [][NextFeature]_vars

\* the whole script, from the two files to the last score
Init ==
    /\ IdleRmsle
    /\ IdleSplit
    /\ InitRun
Next ==
    \/ TagAndConcat
    \/ SetIndex
    \/ LogAndDatetimeColumns
    \/ Interpolate
    \/ CountSeason
    \/ EdaTrainCopy
    \/ SpecialDayAssign
    \/ SpecialDayKeyError
    \/ CustomFeatures
    \/ SplitBack
    \/ TuneModels
    \/ TuneRaises
    \/ BlendFitRegistered
    \/ BlendPredictRegistered
    \/ BlendPredictRaises
    \/ BlendFitCasual
    \/ BlendPredictCasual
    \/ BlendStore
    \/ FitBlender
    \/ FinalPredictAndSubmit
    \/ CallPredictOnValidationSet
    \/ ValidFitRegistered
    \/ ValidFitRaises
    \/ ValidPredictRegistered
    \/ ValidPredictRaises
    \/ ValidFitCasual
    \/ ValidPredictCasual
    \/ ValidCombine
    \/ ValidScore
    \/ BlendValidSplit
    \/ BlendValidFitRegistered
    \/ BlendValidPredictRegistered
    \/ BlendValidFitCasual
    \/ BlendValidPredictCasual
    \/ BlendValidStore
    \/ BlendValidScore
Spec == Init /\ [][Next]_vars

(***************************************************************************)
(* Properties.                                                             *)
(***************************************************************************)
\* tr and va partition d at cutoff c, keeping the records and their order
IsOrderedPartition(d, c, tr, va) ==
    /\ Len(tr) + Len(va) = Len(d)
    /\ \A i \in 1..Len(d) :
          Cardinality({j \in 1..Len(tr) : tr[j] = d[i]})
            + Cardinality({k \in 1..Len(va) : va[k] = d[i]}) = 1
    /\ \A j \in 1..Len(tr) : tr[j].day <= c
    /\ \A k \in 1..Len(va) : va[k].day > c
    /\ \A j1, j2 \in 1..Len(tr) : j1 < j2 => tr[j1].row < tr[j2].row
    /\ \A k1, k2 \in 1..Len(va) : k1 < k2 => va[k1].row < va[k2].row

\* C1: custom_train_valid_split partitions its input: each input record is in
\* exactly one of train and valid, train holds the records with day <= cutoff and
\* valid those with day > cutoff, both in the input's order, and the input is
\* left as it was.
Thm_C1_SplitIsPartition ==
    [][(split_pc = "call" /\ split_pc' = "returned")
         => /\ data' = data
            /\ cutoff_day' = cutoff_day
            /\ IsOrderedPartition(data, cutoff_day, train', valid')]_vars

\* C1 witness: a call with the default cutoff returned, a record lies on the
\* cutoff day itself, and both outputs are non-empty.
Wit_C1_SplitBothSides ==
    /\ split_pc = "returned"
    /\ cutoff_day = DefaultCutoffDay
    /\ \E i \in 1..Len(data) : data[i].day = cutoff_day
    /\ Len(train) >= 1
    /\ Len(valid) >= 1

\* C10 as stated: for all equal-length vectors of non-negative counts the
\* returned RMSLE is a number >= 0, and it is 0 when the two vectors are equal.
Orig_C10_RmsleNonNegAllVectors ==
    rmsle_pc = "returned"
      => /\ rmsle.kind = "num"
         /\ rmsle.val >= 0
         /\ (y_pred = y_actual => rmsle.val = 0)

\* C10 amended: for all equal-length NON-EMPTY vectors of non-negative counts
\* the returned RMSLE is a number >= 0, and 0 when the two vectors are equal;
\* for the empty vectors get_rmsle returns NaN (the mean of nothing).
Thm_C10_RmsleNonNegNonEmpty ==
    rmsle_pc = "returned"
      => IF Len(y_pred) = 0
         THEN rmsle = NaN
         ELSE /\ rmsle.kind = "num"
              /\ rmsle.val >= 0
              /\ (y_pred = y_actual => rmsle.val = 0)

\* C10 witness: get_rmsle returned on two equal vectors with a non-zero count.
Wit_C10_RmsleEqualVectors ==
    /\ rmsle_pc = "returned"
    /\ Len(y_pred) >= 2
    /\ y_pred = y_actual
    /\ \E i \in 1..Len(y_pred) : y_pred[i] > 0
    /\ rmsle = Num(0)

\* the sum of count over the train-tagged rows of season s; 0 when there is none
TrainCountSum(df, s) ==
    SumSeq([i \in 1..Len(df) |->
              IF df[i].data_set = "train" /\ df[i].season = s THEN df[i].count ELSE 0])

SeasonHasTrainRow(df, s) == \E i \in 1..Len(df) : df[i].data_set = "train" /\ df[i].season = s

JoinDone == feat_pc \in {"eda", "special", "custom", "split", "engineered", "KeyError"}

\* the rows that carry count_season: those of all_df after the join, and those
\* of the two frames split back from it
RowsWithCountSeason ==
    IF ~JoinDone THEN <<>>
    ELSE IF feat_pc = "engineered" THEN all_df \o train_df \o test_df
    ELSE all_df

\* C4 as stated: after the join every row, train or test, carries as count_season
\* the sum of count over the train-tagged rows of its season.
Orig_C4_CountSeasonIsTrainSum ==
    \A rows \in {RowsWithCountSeason} :
    \A sum \in {[s \in 1..4 |-> Num(TrainCountSum(all_df, s))]} :
       \A i \in 1..Len(rows) : rows[i].count_season = sum[rows[i].season]

\* C4 amended: after the join every row, train or test, whose season some
\* train-tagged row has carries as count_season the sum of count over the
\* train-tagged rows of that season (16 for train counts 13 and 3); a row whose
\* season no train-tagged row has carries NaN, not 0; two test rows of one
\* season carry the same entry.
Thm_C4_CountSeasonIsTrainSumOrNaN ==
    \A rows \in {RowsWithCountSeason} :
    \A expected \in {[s \in 1..4 |-> IF SeasonHasTrainRow(all_df, s)
                                      THEN Num(TrainCountSum(all_df, s)) ELSE NaN]} :
    \A one \in {SelectSeq(all_df, LAMBDA r : r.data_set = "train" /\ r.season = 1)} :
        /\ \A i \in 1..Len(rows) : rows[i].count_season = expected[rows[i].season]
        /\ \A s \in 1..4 :
              Cardinality({rows[i].count_season :
                             i \in {j \in 1..Len(rows) : rows[j].data_set = "test"
                                                          /\ rows[j].season = s}}) <= 1
        /\ (Len(one) = 2 /\ {one[1].count, one[2].count} = {13, 3})
              => \A i \in 1..Len(rows) : rows[i].season = 1 => rows[i].count_season = Num(16)

\* C4 witness: the features are built, the train rows of season 1 have the counts
\* 13 and 3, and a test row of season 1 carries count_season 16.
Wit_C4_SeasonOneSixteen ==
    /\ feat_pc = "engineered"
    /\ \E i, j \in 1..Len(train_df) :
          /\ i # j
          /\ train_df[i].season = 1 /\ train_df[i].count = 13
          /\ train_df[j].season = 1 /\ train_df[j].count = 3
    /\ \E k \in 1..Len(test_df) :
          test_df[k].season = 1 /\ test_df[k].count = 0 /\ test_df[k].count_season = Num(16)

CustomDone == feat_pc \in {"split", "engineered"}

\* C5: every temperature gets exactly one of low, medium, high: low below 10,
\* medium from 10 (included) to 20 (excluded), high from 20 (included).
Thm_C5_TempCategoryTotal ==
    CustomDone =>
      \A i \in 1..Len(all_df) :
         LET r == all_df[i]
         IN  /\ r.temp_category \in {"low", "medium", "high"}
             /\ (r.temp < 10 => r.temp_category = "low")
             /\ ((10 <= r.temp /\ r.temp < 20) => r.temp_category = "medium")
             /\ (r.temp >= 20 => r.temp_category = "high")

\* C5 witness: the custom features are built and rows with the temperatures 9, 10,
\* 19 and 20 carry low, medium, medium and high.
Wit_C5_TempBoundaries ==
    /\ CustomDone
    /\ \E i \in 1..Len(all_df) : all_df[i].temp = 9 /\ all_df[i].temp_category = "low"
    /\ \E i \in 1..Len(all_df) : all_df[i].temp = 10 /\ all_df[i].temp_category = "medium"
    /\ \E i \in 1..Len(all_df) : all_df[i].temp = 19 /\ all_df[i].temp_category = "medium"
    /\ \E i \in 1..Len(all_df) : all_df[i].temp = 20 /\ all_df[i].temp_category = "high"

\* the row of the frames kept from before the special-day statements that row i
\* of all_df came from: train_df (the copy of line 177), then test_df
RowBeforeSpecialDays(i) ==
    IF i <= Len(train_df) THEN train_df[i] ELSE test_df[i - Len(train_df)]

TaxDays == {<<2011, 4, 15>>, <<2012, 4, 16>>}
PostHolidayFridays == {<<2011, 11, 25>>, <<2012, 11, 23>>}
HolidayDates == {<<2011, 11, 25>>, <<2012, 11, 23>>, <<2012, 5, 21>>, <<2012, 6, 1>>}

\* a special-day statement changes nothing but workingday and holiday, and
\* nothing at all on a row of another date
SpecialDayFrame ==
    feat_pc = "special" =>
      /\ Len(all_df') = Len(all_df)
      /\ \A i \in 1..Len(all_df) :
            /\ DOMAIN all_df'[i] = DOMAIN all_df[i]
            /\ \A c \in DOMAIN all_df[i] \ {"workingday", "holiday"} :
                  all_df'[i][c] = all_df[i][c]
            /\ DateOf(all_df[i].index) \notin (TaxDays \cup HolidayDates)
                  => all_df'[i] = all_df[i]

\* once the ten statements have run: the values the listed dates end with, at
\* every hour 0-23, and the unchanged values of the other dates
SpecialDayOutcome ==
    feat_pc = "custom" =>
      /\ \A i \in 1..Len(all_df) :
            LET r == all_df[i]
                d == DateOf(r.index)
            IN  /\ d \in TaxDays => r.workingday = 1
                /\ d \in PostHolidayFridays => r.workingday = 0
                /\ d \in HolidayDates => r.holiday = 1
                /\ d \notin (TaxDays \cup HolidayDates)
                      => /\ r.workingday = RowBeforeSpecialDays(i).workingday
                         /\ r.holiday = RowBeforeSpecialDays(i).holiday
      /\ \A d \in TaxDays \cup HolidayDates : \A h \in 0..23 :
            \E i \in 1..Len(all_df) : all_df[i].index = <<d[1], d[2], d[3], h>>

\* C6: the special-day statements change workingday and holiday only, and only on
\* rows of the listed dates; there they reach every hour 0-23: the tax days end
\* with workingday 1, the post-holiday Fridays with workingday 0, four dates with
\* holiday 1; a row of any other date keeps both values.
Thm_C6_SpecialDaysOnlyListedDates == [][SpecialDayFrame]_vars /\ []SpecialDayOutcome

\* C6 witness: the ten statements have run; a tax-day row went from workingday 0
\* to 1, a post-holiday Friday row from holiday 0 to 1, and a row of another date
\* of the same month is there.
Wit_C6_SpecialDaysApplied ==
    /\ feat_pc = "custom"
    /\ \E i \in 1..Len(all_df) :
          /\ DateOf(all_df[i].index) = <<2011, 4, 15>>
          /\ RowBeforeSpecialDays(i).workingday = 0 /\ all_df[i].workingday = 1
    /\ \E j \in 1..Len(all_df) :
          /\ DateOf(all_df[j].index) = <<2011, 11, 25>>
          /\ RowBeforeSpecialDays(j).holiday = 0 /\ all_df[j].holiday = 1
    /\ \E k \in 1..Len(all_df) : DateOf(all_df[k].index) = <<2011, 11, 10>>

\* C7 as stated: once the timestamp is the index, the rows of all_df are in time
\* order: no row is followed by a row with an earlier timestamp.
Orig_C7_DatasetOrderedByTime ==
    feat_pc \notin {"idle", "tag", "index"} =>
      \A i \in 1..(Len(all_df) - 1) : TimeLeq(all_df[i].index, all_df[i + 1].index)

\* the log-prediction of estimator clf for row r after a fit on target over n rows
LogPrediction(clf, target, n, r) == Learn(learner, clf, target, n)[r[StumpColumn(clf)] + 1]

\* (exp(p_r) - 1) + (exp(p_c) - 1) as numerator and denominator
InvertedSum(p_r, p_c) ==
    [num |-> (p_r[1] - p_r[2]) * p_c[2] + (p_c[1] - p_c[2]) * p_r[2], den |-> p_r[2] * p_c[2]]

Abs(x) == IF x < 0 THEN -x ELSE x

\* n is the integer nearest to q, the even one of the two when q is halfway
IsNearestInteger(n, q) ==
    /\ 2 * Abs(q.num - n * q.den) <= q.den
    /\ 2 * Abs(q.num - n * q.den) = q.den => n % 2 = 0

\* v = max(0, round((exp(p_r) - 1) + (exp(p_c) - 1)))
IsCombinedPrediction(v, p_r, p_c) ==
    \E n \in -2..14 :
        /\ IsNearestInteger(n, InvertedSum(p_r, p_c))
        /\ v = IF n < 0 THEN 0 ELSE n

\* column k of m holds the combined predictions of estimator k for the rows X,
\* fitted over n rows
ColumnIsCombined(m, k, n, X) ==
    /\ Len(m) = Len(X)
    /\ \A i \in 1..Len(X) :
          IsCombinedPrediction(m[i][k], LogPrediction(clfs[k], "registered_log", n, X[i]),
                                        LogPrediction(clfs[k], "casual_log", n, X[i]))

\* C2 as stated: the submission table has one row per test record and every count
\* in it is a non-negative integer, whatever weights the Blender has fitted
Orig_C2_SubmissionCountsNonNegative ==
    submission # NoFile =>
        /\ Len(submission) = Len(test_df)
        /\ \A i \in 1..Len(submission) :
              /\ submission[i].datetime = test_df[i].datetime
              /\ submission[i].count \in Nat

\* C3: every combined prediction stored in a Blend Matrix (train, test, validation)
\* and every one predict_on_validation_set scores is
\* max(0, round((exp(p_r) - 1) + (exp(p_c) - 1))) of the record's registered and
\* casual log-predictions, so 0 when that sum is negative
Thm_C3_CombinedPredictionClamped ==
    [][ /\ (run_pc = "blend_store" /\ run_pc' # "blend_store") =>
              /\ ColumnIsCombined(blend_train', clf_index + 1, Len(train_df), train_df)
              /\ ColumnIsCombined(blend_test', clf_index + 1, Len(train_df), test_df)
        /\ (run_pc = "valid_combine" /\ run_pc' # "valid_combine") =>
              /\ Len(frame'.y_pred_comb) = Len(frame.valid)
              /\ \A i \in 1..Len(frame.valid) :
                    IsCombinedPrediction(frame'.y_pred_comb[i],
                        LogPrediction(frame.model, "registered_log", Len(frame.train), frame.valid[i]),
                        LogPrediction(frame.model, "casual_log", Len(frame.train), frame.valid[i]))
        /\ (run_pc = "bv_store" /\ run_pc' # "bv_store") =>
              ColumnIsCombined(blend_valid', clf_index + 1, Len(train_df), valid)
      ]_vars

\* a cell of m whose log-predictions are log1p(6) and log1p(4) and that holds 10
HasExampleTen(m, k, n, X) ==
    \E i \in 1..Len(X) :
        /\ {LogPrediction(clfs[k], "registered_log", n, X[i]),
            LogPrediction(clfs[k], "casual_log", n, X[i])} = {<<5, 1>>, <<7, 1>>}
        /\ m[i][k] = 10

\* a cell of m whose inverted predictions have a negative sum and that holds 0
HasClampedCell(m, k, n, X) ==
    \E i \in 1..Len(X) :
        /\ InvertedSum(LogPrediction(clfs[k], "registered_log", n, X[i]),
                       LogPrediction(clfs[k], "casual_log", n, X[i])).num < 0
        /\ m[i][k] = 0

\* a finished run whose Blend Matrices hold the example and a clamped cell
Wit_C3_ExampleTenAndClamped ==
    /\ run_pc = "done"
    /\ \E k \in 1..2 : HasExampleTen(blend_test, k, Len(train_df), test_df)
    /\ \E k \in 1..2 : HasClampedCell(blend_valid, k, Len(train_df), valid)
    /\ \E k \in 1..2 : HasClampedCell(blend_train, k, Len(train_df), train_df)

\* the names of the estimators both fits of a training run have returned:
\* <<registered, casual>>, or <<>> when no run has completed both fits
TrainedModelPair ==
    IF run_pc \in {"blend_predict_c", "blend_store", "bv_predict_c", "bv_store"}
    THEN <<model_r, model_c>>
    ELSE IF run_pc \in {"valid_predict_c", "valid_combine", "valid_score"}
    THEN <<frame.model_r, frame.model_c>>
    ELSE <<>>

\* C8 as stated: after both fits of a training run the pair is two estimator
\* instances, the registered one fitted on log1p(registered), the casual one on
\* log1p(casual), on the same feature set and records
Orig_C8_TrainedModelPairKeepsTargets ==
    TrainedModelPair # <<>> =>
        /\ TrainedModelPair[1] # TrainedModelPair[2]
        /\ est[TrainedModelPair[1]].target = "registered_log"
        /\ est[TrainedModelPair[2]].target = "casual_log"
        /\ est[TrainedModelPair[1]].cols = est[TrainedModelPair[2]].cols
        /\ est[TrainedModelPair[1]].rows = est[TrainedModelPair[2]].rows

\* the run has been aborted by a fatal error
Aborted == feat_pc = "KeyError" \/ run_pc = "ValueError"

\* C9 as stated: when a fatal error has aborted the run, at whatever stage, no
\* submission has been written
Orig_C9_NoSubmissionWhenAborted == Aborted => submission = NoFile

\* C11: busy_hour is 1 exactly when workingday, as the special-date overrides left
\* it, is 1 and the hour is 8, 17 or 18; a record with workingday 0 has busy_hour 0
\* at every hour
Thm_C11_BusyHourOnlyWorkingDays ==
    CustomDone =>
      \A i \in 1..Len(all_df) :
         /\ all_df[i].busy_hour \in {0, 1}
         /\ all_df[i].busy_hour = 1 <=>
               (all_df[i].workingday = 1 /\ all_df[i].hour \in {8, 17, 18})
         /\ all_df[i].workingday = 0 => all_df[i].busy_hour = 0

\* a tax-day record read with workingday 0 and overridden to 1 has busy_hour 1 at
\* a rush hour, and a record with workingday 0 has busy_hour 0 at an hour of 10-19
Wit_C11_BusyHourAfterOverride ==
    /\ feat_pc = "split"
    /\ \E j \in 1..Len(train_df) :
          /\ train_df[j].workingday = 0
          /\ \E i \in 1..Len(all_df) :
                /\ all_df[i].index = train_df[j].index
                /\ all_df[i].data_set = "train"
                /\ all_df[i].workingday = 1
                /\ all_df[i].hour = 17
                /\ all_df[i].busy_hour = 1
    /\ \E k \in 1..Len(all_df) :
          /\ all_df[k].workingday = 0
          /\ all_df[k].hour \in 10..19
          /\ all_df[k].busy_hour = 0

\* the rational q equals sum / n
IsMean(q, sum, n) == q[2] > 0 /\ q[1] * n = sum * q[2]

LastFitIs(obj, target, cols, X) ==
    /\ est[obj].target = target
    /\ est[obj].cols = cols
    /\ est[obj].rows = Labels(X)

\* the inverted predictions of estimator clf for the rows X after a fit on target
\* over n rows
InvertedPredictions(clf, target, n, X) ==
    [i \in 1..Len(X) |->
        <<LogPrediction(clf, target, n, X[i])[1] - LogPrediction(clf, target, n, X[i])[2],
          LogPrediction(clf, target, n, X[i])[2]>>]

\* where a prediction is about to be taken, the estimator's last fit is the
\* matching one
PredictionAfterMatchingFit ==
    /\ run_pc = "blend_predict_r" =>
          LastFitIs(model_r, "registered_log", clf_input_cols[clf_index + 1], train_df)
    /\ run_pc = "blend_predict_c" =>
          LastFitIs(model_c, "casual_log", clf_input_cols[clf_index + 1], train_df)
    /\ run_pc = "valid_predict_r" =>
          LastFitIs(frame.model_r, "registered_log", frame.input_cols, frame.train)
    /\ run_pc = "valid_predict_c" =>
          LastFitIs(frame.model_c, "casual_log", frame.input_cols, frame.train)
    /\ run_pc = "bv_predict_r" =>
          LastFitIs(model_r, "registered_log", clf_input_cols[clf_index + 1], train_df)
    /\ run_pc = "bv_predict_c" =>
          LastFitIs(model_c, "casual_log", clf_input_cols[clf_index + 1], train_df)

\* each prediction step stores the predictions of the matching fit
PredictionStepsMatch ==
    /\ (run_pc = "blend_predict_r" /\ run_pc' = "blend_fit_c") =>
          /\ y_pred_train_r' = InvertedPredictions(clfs[clf_index + 1], "registered_log",
                                                    Len(train_df), train_df)
          /\ y_pred_test_r' = InvertedPredictions(clfs[clf_index + 1], "registered_log",
                                                   Len(train_df), test_df)
    /\ (run_pc = "blend_predict_c" /\ run_pc' = "blend_store") =>
          /\ y_pred_train_c' = InvertedPredictions(clfs[clf_index + 1], "casual_log",
                                                    Len(train_df), train_df)
          /\ y_pred_test_c' = InvertedPredictions(clfs[clf_index + 1], "casual_log",
                                                   Len(train_df), test_df)
    /\ (run_pc = "valid_predict_r" /\ run_pc' = "valid_fit_c") =>
          frame'.y_pred_r = InvertedPredictions(frame.model, "registered_log",
                                                Len(frame.train), frame.valid)
    /\ (run_pc = "valid_predict_c" /\ run_pc' = "valid_combine") =>
          frame'.y_pred_c = InvertedPredictions(frame.model, "casual_log",
                                                Len(frame.train), frame.valid)
    /\ (run_pc = "bv_predict_r" /\ run_pc' = "bv_fit_c") =>
          y_pred_valid_r' = InvertedPredictions(clfs[clf_index + 1], "registered_log",
                                                Len(train_df), valid)
    /\ (run_pc = "bv_predict_c" /\ run_pc' = "bv_store") =>
          y_pred_valid_c' = InvertedPredictions(clfs[clf_index + 1], "casual_log",
                                                Len(train_df), valid)

\* the estimator a casual fit step refits
RefittedEstimator == IF run_pc = "valid_fit_c" THEN frame.model ELSE clfs[clf_index + 1]

\* each casual fit refits the object of the registered fit, over the same feature
\* set and the same records, after the registered predictions were taken
CasualFitStepsMatch ==
    (run_pc \in {"blend_fit_c", "valid_fit_c", "bv_fit_c"} /\ run_pc' # run_pc) =>
        /\ est[RefittedEstimator].target = "registered_log"
        /\ est'[RefittedEstimator].target = "casual_log"
        /\ est'[RefittedEstimator].cols = est[RefittedEstimator].cols
        /\ est'[RefittedEstimator].rows = est[RefittedEstimator].rows
        /\ \A other \in {"rf", "gbm"} \ {RefittedEstimator} : est'[other] = est[other]

\* C13: in the blend loop, in predict_on_validation_set and in the blended
\* validation loop every registered prediction is taken after the registered fit
\* and before the casual fit, every casual prediction after the casual fit, and
\* the two fits use the same feature set and the same records
Thm_C13_PredictionsFollowMatchingFit ==
    /\ []PredictionAfterMatchingFit
    /\ [][PredictionStepsMatch /\ CasualFitStepsMatch]_vars

\* the last prediction of a run: the second estimator, refitted in place, predicts
\* casual in the blended validation loop while model_r names the same object
Wit_C13_LastCasualPrediction ==
    /\ run_pc = "bv_predict_c"
    /\ clf_index = 1
    /\ model_r = model_c
    /\ est[model_c].target = "casual_log"
    /\ y_pred_valid_r = InvertedPredictions("gbm", "registered_log", Len(train_df), valid)
    /\ rf_rmsle # NotScored
    /\ gbm_rmsle # NotScored

\* C14 as stated: where a score is computed, no record of the scored subset is
\* among the records the scored models were fitted on: the base regressor in
\* predict_on_validation_set, both base regressors and the Blender in the
\* blended validation
Orig_C14_ScoredRecordsNotFitted ==
    /\ run_pc = "valid_score" =>
          /\ est[frame.model].rows \cap Labels(frame.valid) = {}
          /\ \A i \in 1..Len(frame.train) : frame.train[i].day <= DefaultCutoffDay
          /\ \A i \in 1..Len(frame.valid) : frame.valid[i].day > DefaultCutoffDay
    /\ run_pc = "bv_score" =>
          /\ est["rf"].rows \cap Labels(valid) = {}
          /\ est["gbm"].rows \cap Labels(valid) = {}
          /\ bclf.rows \cap Labels(valid) = {}

====
